---- MODULE Spec2Model ----
(***************************************************************************)
(* The blog application: Post model (blog/models.py), PostForm             *)
(* (blog/forms.py) and the request handlers (blog/views.py), over the      *)
(* relational store of users, sessions and posts.                          *)
(*                                                                         *)
(* Titles and slugs are sequences of one-character strings, so that        *)
(* slugify and the form's whitespace stripping are computed, not assumed.  *)
(* The featured image and the two timestamps are not modelled: no handler  *)
(* branches on them.                                                       *)
(***************************************************************************)
EXTENDS Integers, Sequences, FiniteSets, Bags, TLC

VARIABLES users, session, posts, nextId, pending, resp, gone

vars == <<users, session, posts, nextId, pending, resp, gone>>

-----------------------------------------------------------------------------
(* Bounds and input sets *)

\* posts ever inserted (the autoincrement id never exceeds it)
MaxPosts == 2

\* requests that can be suspended between two of their statements at a time
MaxInFlight == 2

\* Post.title max_length (models.py:13)
TitleMaxLength == 200

\* User.username max_length (django.contrib.auth, used by UserCreationForm)
UsernameMaxLength == 150

\* Usernames and passwords of accounts; a username is a sequence of characters
Usernames == { <<"u", "1">>, <<"u", "2">> }
Passwords == {"ComplexPass123!", "DifferentPass456!"}
Clients == {"c1"}

\* request.user of a request without a session (no username is empty)
Anonymous == <<>>
\* request.method: POST writes, any other method reads
Methods == {"GET", "HEAD", "POST"}
ReadMethods == Methods \ {"POST"}
NoTitle == <<>>
NoSlug == <<>>

\* Slugs requested in URLs.
SlugInputs == { <<"a">>, <<"a", "-", "b">> }

STATUS_CHOICES == {"draft", "published"}

\* Submitted post forms. Titles "a" and "A " differ and have one slug, "a b"
\* has another, "!" has the empty slug, " " is blank; the content of one form
\* is padded with whitespace, of one it is whitespace only, and one form has a
\* status outside the choices.
PostForms ==
  { [title |-> t, content |-> <<"x">>, status |-> s] :
      t \in { <<"a">>, <<"a", " ", "b">> }, s \in STATUS_CHOICES }
  \cup { [title |-> <<"A", " ">>, content |-> <<"x", "\n">>, status |-> "published"],
         [title |-> <<"!">>, content |-> <<"x">>, status |-> "draft"],
         [title |-> <<" ">>, content |-> <<"x">>, status |-> "published"],
         [title |-> <<"a">>, content |-> <<" ">>, status |-> "published"],
         [title |-> <<"a">>, content |-> <<"x">>, status |-> "bogus"] }

NoForm == [title |-> NoTitle, content |-> <<>>, status |-> ""]

\* A password the password validators of the settings reject: short, all
\* digits and common
WeakPassword == "123"

\* Submitted signup forms: a valid form for each username, and for the first
\* username a confirmation that differs, a weak password, blank passwords, the
\* username padded with a blank and the username with a blank inside.
SignupForms ==
  { [username |-> u, password1 |-> "ComplexPass123!",
     password2 |-> "ComplexPass123!"] : u \in Usernames }
  \cup { [username |-> <<"u", "1">>, password1 |-> "ComplexPass123!",
          password2 |-> "DifferentPass456!"],
         [username |-> <<"u", "1">>, password1 |-> WeakPassword,
          password2 |-> WeakPassword],
         [username |-> <<"u", "1">>, password1 |-> "", password2 |-> ""],
         [username |-> <<" ", "u", "1">>, password1 |-> "ComplexPass123!",
          password2 |-> "ComplexPass123!"],
         [username |-> <<"u", " ", "1">>, password1 |-> "ComplexPass123!",
          password2 |-> "ComplexPass123!"] }

\* Valid signup forms for the first username and two other spellings of it:
\* upper case, and a superscript digit that the normalisation of the username
\* field replaces
SpellingForms ==
  { [username |-> u, password1 |-> "ComplexPass123!",
     password2 |-> "ComplexPass123!"] :
      u \in { <<"u", "1">>, <<"U", "1">>, <<"u", "¹">> } }

NoSignupForm == [username |-> <<>>, password1 |-> "", password2 |-> ""]

-----------------------------------------------------------------------------
(* django.utils.text.slugify, as called by Post.save *)

\* unicodedata.normalize('NFKD', value).encode('ascii', 'ignore'): each
\* character outside ASCII with the ASCII characters of its decomposition,
\* none when it has no such character. Characters are those of ASCII and
\* Latin-1 (80-FF).
NFKD_ASCII ==
  {
    <<"", <<>>>>, <<"", <<>>>>, <<"", <<>>>>, <<"", <<>>>>,
    <<"", <<>>>>, <<"", <<>>>>, <<"", <<>>>>, <<"", <<>>>>,
    <<"", <<>>>>, <<"", <<>>>>, <<"", <<>>>>, <<"", <<>>>>,
    <<"", <<>>>>, <<"", <<>>>>, <<"", <<>>>>, <<"", <<>>>>,
    <<"", <<>>>>, <<"", <<>>>>, <<"", <<>>>>, <<"", <<>>>>,
    <<"", <<>>>>, <<"", <<>>>>, <<"", <<>>>>, <<"", <<>>>>,
    <<"", <<>>>>, <<"", <<>>>>, <<"", <<>>>>, <<"", <<>>>>,
    <<"", <<>>>>, <<"", <<>>>>, <<"", <<>>>>, <<"", <<>>>>,
    <<" ", <<" ">>>>, <<"¡", <<>>>>, <<"¢", <<>>>>, <<"£", <<>>>>,
    <<"¤", <<>>>>, <<"¥", <<>>>>, <<"¦", <<>>>>, <<"§", <<>>>>,
    <<"¨", <<" ">>>>, <<"©", <<>>>>, <<"ª", <<"a">>>>, <<"«", <<>>>>,
    <<"¬", <<>>>>, <<"­", <<>>>>, <<"®", <<>>>>, <<"¯", <<" ">>>>,
    <<"°", <<>>>>, <<"±", <<>>>>, <<"²", <<"2">>>>, <<"³", <<"3">>>>,
    <<"´", <<" ">>>>, <<"µ", <<>>>>, <<"¶", <<>>>>, <<"·", <<>>>>,
    <<"¸", <<" ">>>>, <<"¹", <<"1">>>>, <<"º", <<"o">>>>, <<"»", <<>>>>,
    <<"¼", <<"1", "4">>>>, <<"½", <<"1", "2">>>>, <<"¾", <<"3", "4">>>>,
    <<"¿", <<>>>>, <<"À", <<"A">>>>, <<"Á", <<"A">>>>, <<"Â", <<"A">>>>,
    <<"Ã", <<"A">>>>, <<"Ä", <<"A">>>>, <<"Å", <<"A">>>>, <<"Æ", <<>>>>,
    <<"Ç", <<"C">>>>, <<"È", <<"E">>>>, <<"É", <<"E">>>>, <<"Ê", <<"E">>>>,
    <<"Ë", <<"E">>>>, <<"Ì", <<"I">>>>, <<"Í", <<"I">>>>, <<"Î", <<"I">>>>,
    <<"Ï", <<"I">>>>, <<"Ð", <<>>>>, <<"Ñ", <<"N">>>>, <<"Ò", <<"O">>>>,
    <<"Ó", <<"O">>>>, <<"Ô", <<"O">>>>, <<"Õ", <<"O">>>>, <<"Ö", <<"O">>>>,
    <<"×", <<>>>>, <<"Ø", <<>>>>, <<"Ù", <<"U">>>>, <<"Ú", <<"U">>>>,
    <<"Û", <<"U">>>>, <<"Ü", <<"U">>>>, <<"Ý", <<"Y">>>>, <<"Þ", <<>>>>,
    <<"ß", <<>>>>, <<"à", <<"a">>>>, <<"á", <<"a">>>>, <<"â", <<"a">>>>,
    <<"ã", <<"a">>>>, <<"ä", <<"a">>>>, <<"å", <<"a">>>>, <<"æ", <<>>>>,
    <<"ç", <<"c">>>>, <<"è", <<"e">>>>, <<"é", <<"e">>>>, <<"ê", <<"e">>>>,
    <<"ë", <<"e">>>>, <<"ì", <<"i">>>>, <<"í", <<"i">>>>, <<"î", <<"i">>>>,
    <<"ï", <<"i">>>>, <<"ð", <<>>>>, <<"ñ", <<"n">>>>, <<"ò", <<"o">>>>,
    <<"ó", <<"o">>>>, <<"ô", <<"o">>>>, <<"õ", <<"o">>>>, <<"ö", <<"o">>>>,
    <<"÷", <<>>>>, <<"ø", <<>>>>, <<"ù", <<"u">>>>, <<"ú", <<"u">>>>,
    <<"û", <<"u">>>>, <<"ü", <<"u">>>>, <<"ý", <<"y">>>>, <<"þ", <<>>>>,
    <<"ÿ", <<"y">>>>
  }

NFKD_CHARS == {p[1] : p \in NFKD_ASCII}

NFKD_MAP == [ch \in NFKD_CHARS |-> (CHOOSE p \in NFKD_ASCII : p[1] = ch)[2]]

ascii_fold(ch) == IF ch \in NFKD_CHARS THEN NFKD_MAP[ch] ELSE <<ch>>

RECURSIVE NormalizeSeq(_)
NormalizeSeq(s) ==
  IF s = <<>> THEN <<>> ELSE ascii_fold(Head(s)) \o NormalizeSeq(Tail(s))

\* str.lower(): each cased character with its lower-case form
LOWER ==
  {
    <<"A", "a">>, <<"B", "b">>, <<"C", "c">>, <<"D", "d">>, <<"E", "e">>,
    <<"F", "f">>, <<"G", "g">>, <<"H", "h">>, <<"I", "i">>, <<"J", "j">>,
    <<"K", "k">>, <<"L", "l">>, <<"M", "m">>, <<"N", "n">>, <<"O", "o">>,
    <<"P", "p">>, <<"Q", "q">>, <<"R", "r">>, <<"S", "s">>, <<"T", "t">>,
    <<"U", "u">>, <<"V", "v">>, <<"W", "w">>, <<"X", "x">>, <<"Y", "y">>,
    <<"Z", "z">>, <<"À", "à">>, <<"Á", "á">>, <<"Â", "â">>, <<"Ã", "ã">>,
    <<"Ä", "ä">>, <<"Å", "å">>, <<"Æ", "æ">>, <<"Ç", "ç">>, <<"È", "è">>,
    <<"É", "é">>, <<"Ê", "ê">>, <<"Ë", "ë">>, <<"Ì", "ì">>, <<"Í", "í">>,
    <<"Î", "î">>, <<"Ï", "ï">>, <<"Ð", "ð">>, <<"Ñ", "ñ">>, <<"Ò", "ò">>,
    <<"Ó", "ó">>, <<"Ô", "ô">>, <<"Õ", "õ">>, <<"Ö", "ö">>, <<"Ø", "ø">>,
    <<"Ù", "ù">>, <<"Ú", "ú">>, <<"Û", "û">>, <<"Ü", "ü">>, <<"Ý", "ý">>,
    <<"Þ", "þ">>
  }

UPPER_CHARS == {p[1] : p \in LOWER}

LOWER_MAP == [ch \in UPPER_CHARS |-> (CHOOSE p \in LOWER : p[1] = ch)[2]]

lower(ch) == IF ch \in UPPER_CHARS THEN LOWER_MAP[ch] ELSE ch

\* \w: letters, digits (and other numeric characters) and the underscore
WORD_CHARS ==
  {
    "0", "1", "2", "3", "4", "5", "6", "7", "8", "9", "A", "B", "C", "D",
    "E", "F", "G", "H", "I", "J", "K", "L", "M", "N", "O", "P", "Q", "R",
    "S", "T", "U", "V", "W", "X", "Y", "Z", "_", "a", "b", "c", "d", "e",
    "f", "g", "h", "i", "j", "k", "l", "m", "n", "o", "p", "q", "r", "s",
    "t", "u", "v", "w", "x", "y", "z", "ª", "²", "³", "µ", "¹", "º", "¼",
    "½", "¾", "À", "Á", "Â", "Ã", "Ä", "Å", "Æ", "Ç", "È", "É", "Ê", "Ë",
    "Ì", "Í", "Î", "Ï", "Ð", "Ñ", "Ò", "Ó", "Ô", "Õ", "Ö", "Ø", "Ù", "Ú",
    "Û", "Ü", "Ý", "Þ", "ß", "à", "á", "â", "ã", "ä", "å", "æ", "ç", "è",
    "é", "ê", "ë", "ì", "í", "î", "ï", "ð", "ñ", "ò", "ó", "ô", "õ", "ö",
    "ø", "ù", "ú", "û", "ü", "ý", "þ", "ÿ"
  }

IsWordChar(ch) == ch \in WORD_CHARS

\* \s and str.isspace(): blank, \t, \n, \r, \f, \v, the separators 1C-1F,
\* next line (85) and the no-break space (A0)
WHITESPACE ==
  {
    "\t", "\n", "", "\f", "\r", "", "", "", "", " ", "", " "
  }

IsSpace(ch) == ch \in WHITESPACE

IsSep(ch) == IsSpace(ch) \/ ch = "-"

\* value.lower()
LowerSeq(s) == [i \in 1..Len(s) |-> lower(s[i])]

\* re.sub(r'[^\w\s-]', '', value)
KeepSlugChar(ch) == IsWordChar(ch) \/ IsSep(ch)
DropNonSlug(s) == SelectSeq(s, KeepSlugChar)

\* re.sub(r'[-\s]+', '-', value)
RECURSIVE CollapseSeps(_)
CollapseSeps(s) ==
  IF s = <<>> THEN <<>>
  ELSE IF IsSep(Head(s))
       THEN IF Len(s) > 1 /\ IsSep(s[2])
            THEN CollapseSeps(Tail(s))
            ELSE <<"-">> \o CollapseSeps(Tail(s))
       ELSE <<Head(s)>> \o CollapseSeps(Tail(s))

\* .strip('-_')
RECURSIVE StripLeft(_, _)
StripLeft(s, chars) ==
  IF s # <<>> /\ Head(s) \in chars THEN StripLeft(Tail(s), chars) ELSE s

RECURSIVE StripRight(_, _)
StripRight(s, chars) ==
  IF s # <<>> /\ s[Len(s)] \in chars
  THEN StripRight(SubSeq(s, 1, Len(s) - 1), chars)
  ELSE s

Strip(s, chars) == StripRight(StripLeft(s, chars), chars)

slugify(title) ==
  Strip(CollapseSeps(DropNonSlug(LowerSeq(NormalizeSeq(title)))), {"-", "_"})

-----------------------------------------------------------------------------
(* PostForm: cleaning and validation *)

\* forms.CharField(strip=True): the submitted title with surrounding
\* whitespace removed
clean_title(form) == Strip(form.title, WHITESPACE)

\* the content field (a CharField with strip=True as well)
clean_content(form) == Strip(form.content, WHITESPACE)

\* form.errors: the fields that fail validation
form_errors(form) ==
  (IF clean_title(form) = <<>> \/ Len(clean_title(form)) > TitleMaxLength
   THEN {"title"} ELSE {})
  \cup (IF clean_content(form) = <<>> THEN {"content"} ELSE {})
  \cup (IF form.status \notin STATUS_CHOICES THEN {"status"} ELSE {})

is_valid(form) == form_errors(form) = {}

\* Variant: author among the form's fields, taken from the submitted data
construct_instance_with_author(inst, form) ==
  [inst EXCEPT !.title = clean_title(form),
               !.content = clean_content(form),
               !.status = form.status,
               !.author = CHOOSE u \in Usernames : u # inst.author]

\* construct_instance: the form's cleaned fields written over the instance;
\* slug, author and id are not form fields
construct_instance(inst, form) ==
  [inst EXCEPT !.title = clean_title(form),
               !.content = clean_content(form),
               !.status = form.status]

\* Post(): an unsaved instance with the field defaults
NewPost == [title |-> NoTitle, slug |-> NoSlug, author |-> Anonymous,
            content |-> <<>>, status |-> "draft"]

-----------------------------------------------------------------------------
(* The posts table *)

\* Variant: the slug column without unique=True
UniqueViolation_off(store, id, slug) == FALSE

\* slug = models.SlugField(unique=True): another row holds the slug
UniqueViolation(store, id, slug) ==
  \E k \in DOMAIN store : k # id /\ store[k].slug = slug

\* UPDATE ... WHERE id = pk: no row has the id, or the row is rewritten; a
\* uniqueness violation aborts the statement
Model_update(store, id, row) ==
  IF id \notin DOMAIN store
  THEN [matched |-> FALSE, ok |-> TRUE, store |-> store]
  ELSE IF UniqueViolation(store, id, row.slug)
  THEN [matched |-> TRUE, ok |-> FALSE, store |-> store]
  ELSE [matched |-> TRUE, ok |-> TRUE, store |-> [store EXCEPT ![id] = row]]

\* INSERT: a row that holds the primary key or the slug aborts the statement
Model_insert(store, id, row) ==
  IF id \in DOMAIN store \/ UniqueViolation(store, id, row.slug)
  THEN [ok |-> FALSE, store |-> store]
  ELSE [ok |-> TRUE,
        store |-> [k \in DOMAIN store \cup {id} |->
                     IF k = id THEN row ELSE store[k]]]

\* models.Model.save: UPDATE the row of the instance's id; when no row was
\* updated, INSERT it
Model_save(store, id, row) ==
  LET updated == Model_update(store, id, row) IN
  IF updated.matched
  THEN [ok |-> updated.ok, store |-> updated.store]
  ELSE Model_insert(store, id, row)

\* Variant: the slug is computed only when empty
save_slug_only_when_empty(inst) ==
  IF inst.slug = NoSlug THEN slugify(inst.title) ELSE inst.slug

\* Post.save: the slug is recomputed when empty or different from the
\* title's, then the row is written
save_slug(inst) ==
  IF inst.slug = NoSlug \/ slugify(inst.title) # inst.slug
  THEN slugify(inst.title)
  ELSE inst.slug

\* Variant: the slug is derived only when the post is first stored
Post_save_slug_when_new(store, id, inst) ==
  Model_save(store, id,
             IF id \in DOMAIN store THEN inst
             ELSE [inst EXCEPT !.slug = save_slug(inst)])

Post_save(store, id, inst) ==
  Model_save(store, id, [inst EXCEPT !.slug = save_slug(inst)])

\* Variant: a delete that removes nothing
Model_delete_noop(store, id) == store

\* post.delete(): DELETE of the row with the instance's id
Model_delete(store, id) == [k \in DOMAIN store \ {id} |-> store[k]]

\* Variant: the public lookup without the status filter
get_any_status_or_404(store, slug) ==
  IF \E k \in DOMAIN store : store[k].slug = slug
  THEN CHOOSE k \in DOMAIN store : store[k].slug = slug
  ELSE 0

\* get_object_or_404(Post, slug=slug, status='published'); 0 stands for Http404
get_published_or_404(store, slug) ==
  IF \E k \in DOMAIN store : store[k].slug = slug /\ store[k].status = "published"
  THEN CHOOSE k \in DOMAIN store :
         store[k].slug = slug /\ store[k].status = "published"
  ELSE 0

\* Variant: the owner lookup without the author filter
get_any_author_or_404(store, slug, user) ==
  IF \E k \in DOMAIN store : store[k].slug = slug
  THEN CHOOSE k \in DOMAIN store : store[k].slug = slug
  ELSE 0

\* get_object_or_404(Post, slug=slug, author=request.user)
get_owned_or_404(store, slug, user) ==
  IF \E k \in DOMAIN store : store[k].slug = slug /\ store[k].author = user
  THEN CHOOSE k \in DOMAIN store : store[k].slug = slug /\ store[k].author = user
  ELSE 0

\* Post.objects.filter(status='published')
published_posts(store) == {k \in DOMAIN store : store[k].status = "published"}

\* Post.objects.filter(author=request.user)
posts_of(store, user) == {k \in DOMAIN store : store[k].author = user}

-----------------------------------------------------------------------------
(* Responses and requests in flight *)

Response(op, method, c, slug, title, status, body) ==
  [op |-> op, method |-> method, client |-> c, user |-> session[c],
   slug |-> slug, title |-> title, status |-> status, body |-> body,
   errors |-> {}, submitted |-> NoSignupForm]

NoResponse ==
  [op |-> "none", method |-> "GET", client |-> "c1", user |-> Anonymous,
   slug |-> NoSlug, title |-> NoTitle, status |-> "none", body |-> {},
   errors |-> {}, submitted |-> NoSignupForm]

\* No response yet: the request is suspended between two of its statements
Suspended(op, c) ==
  [NoResponse EXCEPT !.op = op, !.method = "POST", !.client = c,
                     !.status = "in_progress"]

\* A request suspended between two statements: what it was sent with and what
\* it has read so far
NoPending ==
  [op |-> "none", client |-> "c1", user |-> Anonymous, slug |-> NoSlug,
   data |-> NoForm, id |-> 0, inst |-> NewPost, form |-> NoSignupForm]

\* The suspended requests are a bag: two of them can be the same request at
\* the same statement
NoneInFlight == EmptyBag

InFlight(inflight) == BagToSet(inflight)

\* a further request can be suspended while fewer than MaxInFlight are
CanSuspend(inflight) == BagCardinality(inflight) < MaxInFlight

\* a request is suspended, goes on to its next statement, is answered
Suspend(inflight, r) == inflight (+) SetToBag({r})
Finish(inflight, r) == inflight (-) SetToBag({r})
Proceed(inflight, r, next) == Suspend(Finish(inflight, r), next)

\* Variant: a view without @login_required
login_not_required(c) == TRUE

\* @login_required
login_required(c) == session[c] # Anonymous

-----------------------------------------------------------------------------
(* Initial state: an empty database, no session *)

Init ==
  /\ users = [u \in {} |-> "ComplexPass123!"]
  /\ session = [c \in Clients |-> Anonymous]
  /\ posts = [k \in {} |-> NewPost]
  /\ nextId = 1
  /\ pending = NoneInFlight
  /\ resp = NoResponse
  /\ gone = {}

-----------------------------------------------------------------------------
(* views.py *)

post_list(c) ==
  /\ resp' = Response("list", "GET", c, NoSlug, NoTitle, "ok", published_posts(posts))
  /\ UNCHANGED <<users, session, posts, nextId, pending, gone>>

post_detail(c, slug) ==
  LET id == get_published_or_404(posts, slug) IN
  /\ resp' = IF id = 0
             THEN Response("detail", "GET", c, slug, NoTitle, "not_found", {})
             ELSE Response("detail", "GET", c, slug, NoTitle, "ok", {id})
  /\ UNCHANGED <<users, session, posts, nextId, pending, gone>>

my_posts(c) ==
  /\ resp' = IF ~login_required(c)
             THEN Response("my_posts", "GET", c, NoSlug, NoTitle, "redirect_login", {})
             ELSE Response("my_posts", "GET", c, NoSlug, NoTitle, "ok",
                           posts_of(posts, session[c]))
  /\ UNCHANGED <<users, session, posts, nextId, pending, gone>>

post_create(c, method, form) ==
  LET inst == [construct_instance(NewPost, form) EXCEPT !.author = session[c]]
      saved == Post_save(posts, nextId, inst)
  IN
  IF ~login_required(c) THEN
    /\ resp' = Response("create", method, c, NoSlug, NoTitle, "redirect_login", {})
    /\ UNCHANGED <<users, session, posts, nextId, pending, gone>>
  ELSE IF method # "POST" THEN
    /\ resp' = Response("create", method, c, NoSlug, NoTitle, "ok", {})
    /\ UNCHANGED <<users, session, posts, nextId, pending, gone>>
  ELSE IF ~is_valid(form) THEN
    /\ resp' = [Response("create", method, c, NoSlug, NoTitle, "form_errors", {})
                  EXCEPT !.errors = form_errors(form)]
    /\ UNCHANGED <<users, session, posts, nextId, pending, gone>>
  ELSE IF ~saved.ok THEN
    /\ resp' = Response("create", method, c, NoSlug, inst.title, "integrity_error", {})
    /\ UNCHANGED <<users, session, posts, nextId, pending, gone>>
  ELSE
    /\ nextId <= MaxPosts
    /\ posts' = saved.store
    /\ nextId' = nextId + 1
    /\ gone' = gone \ {saved.store[nextId].slug}
    /\ resp' = Response("create", method, c, NoSlug, inst.title,
                        "redirect_my_posts", {nextId})
    /\ UNCHANGED <<users, session, pending>>

post_edit(c, slug, method, form) ==
  LET id == get_owned_or_404(posts, slug, session[c])
      inst == construct_instance(posts[id], form)
      saved == Post_save(posts, id, inst)
  IN
  IF ~login_required(c) THEN
    /\ resp' = Response("edit", method, c, slug, NoTitle, "redirect_login", {})
    /\ UNCHANGED <<users, session, posts, nextId, pending, gone>>
  ELSE IF id = 0 THEN
    /\ resp' = Response("edit", method, c, slug, NoTitle, "not_found", {})
    /\ UNCHANGED <<users, session, posts, nextId, pending, gone>>
  ELSE IF method # "POST" THEN
    /\ resp' = Response("edit", method, c, slug, NoTitle, "ok", {id})
    /\ UNCHANGED <<users, session, posts, nextId, pending, gone>>
  ELSE IF ~is_valid(form) THEN
    /\ resp' = [Response("edit", method, c, slug, NoTitle, "form_errors", {id})
                  EXCEPT !.errors = form_errors(form)]
    /\ UNCHANGED <<users, session, posts, nextId, pending, gone>>
  ELSE IF ~saved.ok THEN
    /\ resp' = Response("edit", method, c, slug, inst.title, "integrity_error", {id})
    /\ UNCHANGED <<users, session, posts, nextId, pending, gone>>
  ELSE
    /\ posts' = saved.store
    /\ resp' = Response("edit", method, c, slug, inst.title, "redirect_my_posts", {id})
    /\ UNCHANGED <<users, session, nextId, pending, gone>>

post_delete(c, slug, method) ==
  LET id == get_owned_or_404(posts, slug, session[c]) IN
  IF ~login_required(c) THEN
    /\ resp' = Response("delete", method, c, slug, NoTitle, "redirect_login", {})
    /\ UNCHANGED <<users, session, posts, nextId, pending, gone>>
  ELSE IF id = 0 THEN
    /\ resp' = Response("delete", method, c, slug, NoTitle, "not_found", {})
    /\ UNCHANGED <<users, session, posts, nextId, pending, gone>>
  ELSE IF method # "POST" THEN
    /\ resp' = Response("delete", method, c, slug, NoTitle, "ok", {id})
    /\ UNCHANGED <<users, session, posts, nextId, pending, gone>>
  ELSE
    /\ posts' = Model_delete(posts, id)
    /\ gone' = gone \cup {posts[id].slug}
    /\ resp' = Response("delete", method, c, slug, NoTitle, "redirect_my_posts", {id})
    /\ UNCHANGED <<users, session, nextId, pending>>

\* UsernameField.to_python: unicodedata.normalize('NFKC', value). The
\* characters of Latin-1 that it changes, each with what it becomes; a
\* character outside Latin-1 is written by its code point.
NFKC ==
  {
    <<" ", <<" ">>>>, <<"¨", <<" ", "U+0308">>>>, <<"ª", <<"a">>>>,
    <<"¯", <<" ", "U+0304">>>>, <<"²", <<"2">>>>, <<"³", <<"3">>>>,
    <<"´", <<" ", "U+0301">>>>, <<"µ", <<"U+03BC">>>>,
    <<"¸", <<" ", "U+0327">>>>, <<"¹", <<"1">>>>, <<"º", <<"o">>>>,
    <<"¼", <<"1", "U+2044", "4">>>>, <<"½", <<"1", "U+2044", "2">>>>,
    <<"¾", <<"3", "U+2044", "4">>>>
  }

NFKC_CHARS == {p[1] : p \in NFKC}

NFKC_MAP == [ch \in NFKC_CHARS |-> (CHOOSE p \in NFKC : p[1] = ch)[2]]

RECURSIVE NormalizeUsername(_)
NormalizeUsername(s) ==
  IF s = <<>> THEN <<>>
  ELSE (IF Head(s) \in NFKC_CHARS THEN NFKC_MAP[Head(s)] ELSE <<Head(s)>>)
       \o NormalizeUsername(Tail(s))

\* the username field: stripped, then normalised
clean_username(form) == NormalizeUsername(Strip(form.username, WHITESPACE))

\* UnicodeUsernameValidator, ^[\w.@+-]+\Z
USERNAME_CHARS == WORD_CHARS \cup {".", "@", "+", "-", "U+03BC"}

\* The iexact lookup is a LIKE without wildcards, and the LIKE of SQLite
\* ignores case for the letters of ASCII only
ASCII_UPPER ==
  { "A", "B", "C", "D", "E", "F", "G", "H", "I", "J", "K", "L", "M",
    "N", "O", "P", "Q", "R", "S", "T", "U", "V", "W", "X", "Y", "Z" }

like_fold(ch) == IF ch \in ASCII_UPPER THEN LOWER_MAP[ch] ELSE ch

\* clean_username: an account whose username differs at most in the case of
\* ASCII letters
username_taken(table, username) ==
  \E u \in DOMAIN table :
    /\ Len(u) = Len(username)
    /\ \A i \in 1..Len(u) : like_fold(u[i]) = like_fold(username[i])

\* validate_password with the AUTH_PASSWORD_VALIDATORS of the settings
password_validators_reject(password) == password = WeakPassword

\* UserCreationForm.errors: the username is blank, too long, has a character
\* outside the validator's or is taken; a password is blank; the two passwords
\* differ; the password validators reject the confirmed password
signup_errors(form) ==
  LET username == clean_username(form)
      differ == /\ form.password1 # "" /\ form.password2 # ""
                /\ form.password1 # form.password2
  IN (IF \/ username = <<>>
         \/ Len(username) > UsernameMaxLength
         \/ \E i \in 1..Len(username) : username[i] \notin USERNAME_CHARS
         \/ username_taken(users, username)
      THEN {"username"} ELSE {})
     \cup (IF form.password1 = "" THEN {"password1"} ELSE {})
     \cup (IF \/ form.password2 = ""
              \/ differ
              \/ password_validators_reject(form.password2)
           THEN {"password2"} ELSE {})

signup_is_valid(form) == signup_errors(form) = {}

\* form.save(): the INSERT of the user with the cleaned username and the
\* first password; the username column is unique, and a violation
\* (IntegrityError) writes nothing
User_save(table, form) ==
  LET username == clean_username(form) IN
  IF username \in DOMAIN table
  THEN [ok |-> FALSE, table |-> table]
  ELSE [ok |-> TRUE,
        table |-> [u \in DOMAIN table \cup {username} |->
                     IF u = username THEN form.password1 ELSE table[u]]]

signup(c, method, form) ==
  LET saved == User_save(users, form) IN
  IF method # "POST" THEN
    /\ resp' = Response("signup", method, c, NoSlug, NoTitle, "ok", {})
    /\ UNCHANGED <<users, session, posts, nextId, pending, gone>>
  ELSE IF ~signup_is_valid(form) THEN
    /\ resp' = [Response("signup", method, c, NoSlug, NoTitle, "form_errors", {})
                  EXCEPT !.errors = signup_errors(form), !.submitted = form]
    /\ UNCHANGED <<users, session, posts, nextId, pending, gone>>
  ELSE IF ~saved.ok THEN
    /\ resp' = [Response("signup", method, c, NoSlug, NoTitle, "integrity_error", {})
                  EXCEPT !.submitted = form]
    /\ UNCHANGED <<users, session, posts, nextId, pending, gone>>
  ELSE
    /\ users' = saved.table
    /\ session' = [session EXCEPT ![c] = clean_username(form)]
    /\ resp' = [Response("signup", method, c, NoSlug, NoTitle, "redirect_post_list", {})
                  EXCEPT !.user = clean_username(form), !.submitted = form]
    /\ UNCHANGED <<posts, nextId, pending, gone>>

-----------------------------------------------------------------------------
(* The authentication collaborator: the login and logout views *)

\* authenticate(): the account exists and the password is its password
authenticate(username, password) ==
  username \in DOMAIN users /\ users[username] = password

login(c, username, password) ==
  IF authenticate(username, password) THEN
    /\ session' = [session EXCEPT ![c] = username]
    /\ resp' = [Response("login", "POST", c, NoSlug, NoTitle, "redirect_post_list", {})
                  EXCEPT !.user = username]
    /\ UNCHANGED <<users, posts, nextId, pending, gone>>
  ELSE
    /\ resp' = [Response("login", "POST", c, NoSlug, NoTitle, "form_errors", {})
                  EXCEPT !.user = username, !.errors = {"invalid_login"}]
    /\ UNCHANGED <<users, session, posts, nextId, pending, gone>>

logout(c) ==
  /\ session' = [session EXCEPT ![c] = Anonymous]
  /\ resp' = [Response("logout", "POST", c, NoSlug, NoTitle, "redirect_post_list", {})
                EXCEPT !.user = Anonymous]
  /\ UNCHANGED <<users, posts, nextId, pending, gone>>

-----------------------------------------------------------------------------
(* Requests handled one at a time *)

Next ==
  \/ \E c \in Clients : post_list(c)
  \/ \E c \in Clients, slug \in SlugInputs : post_detail(c, slug)
  \/ \E c \in Clients : my_posts(c)
  \/ \E c \in Clients, method \in ReadMethods : post_create(c, method, NoForm)
  \/ \E c \in Clients, form \in PostForms : post_create(c, "POST", form)
  \/ \E c \in Clients, slug \in SlugInputs, method \in ReadMethods :
       post_edit(c, slug, method, NoForm)
  \/ \E c \in Clients, slug \in SlugInputs, form \in PostForms :
       post_edit(c, slug, "POST", form)
  \/ \E c \in Clients, slug \in SlugInputs, method \in ReadMethods :
       post_delete(c, slug, method)
  \/ \E c \in Clients, slug \in SlugInputs : post_delete(c, slug, "POST")
  \/ \E c \in Clients, method \in ReadMethods : signup(c, method, NoSignupForm)
  \/ \E c \in Clients, form \in SignupForms : signup(c, "POST", form)
  \/ \E c \in Clients, u \in Usernames, p \in Passwords : login(c, u, p)
  \/ \E c \in Clients : logout(c)

Spec == Init /\ [][Next]_vars

-----------------------------------------------------------------------------
(* Overlapping requests: a handler is suspended between two of its          *)
(* statements while other requests are served. The views hold no lock and   *)
(* open no transaction, so each statement commits on its own.               *)

Answer(r, op, status, title, body) ==
  [op |-> op, method |-> "POST", client |-> r.client,
   user |-> r.user, slug |-> r.slug, title |-> title,
   status |-> status, body |-> body, errors |-> {},
   submitted |-> r.form]

\* post_create up to post.save(): @login_required has read the session, the
\* form is bound and valid
post_create_auth(c, form) ==
  /\ CanSuspend(pending)
  /\ login_required(c)
  /\ is_valid(form)
  /\ pending' = Suspend(pending,
                   [NoPending EXCEPT !.op = "create", !.client = c,
                                     !.user = session[c], !.data = form])
  /\ resp' = Suspended("create", c)
  /\ UNCHANGED <<users, session, posts, nextId, gone>>

\* post_create at post.save(): the INSERT, with the user the request was
\* authenticated as for author
post_create_save(r) ==
  LET inst == [construct_instance(NewPost, r.data)
                 EXCEPT !.author = r.user]
      saved == Post_save(posts, nextId, inst)
  IN
  /\ r.op = "create"
  /\ pending' = Finish(pending, r)
  /\ IF ~saved.ok
     THEN /\ resp' = Answer(r, "create", "integrity_error", inst.title, {})
          /\ UNCHANGED <<posts, nextId, gone>>
     ELSE /\ nextId <= MaxPosts
          /\ posts' = saved.store
          /\ nextId' = nextId + 1
          /\ gone' = gone \ {saved.store[nextId].slug}
          /\ resp' = Answer(r, "create", "redirect_my_posts", inst.title, {nextId})
  /\ UNCHANGED <<users, session>>

\* post_edit up to get_object_or_404: @login_required has read the session
post_edit_auth(c, slug, form) ==
  /\ CanSuspend(pending)
  /\ login_required(c)
  /\ is_valid(form)
  /\ pending' = Suspend(pending,
                   [NoPending EXCEPT !.op = "edit_auth", !.client = c,
                                     !.user = session[c], !.slug = slug,
                                     !.data = form])
  /\ resp' = Suspended("edit", c)
  /\ UNCHANGED <<users, session, posts, nextId, gone>>

\* post_edit from get_object_or_404 to form.is_valid(): the post of the user
\* the request was authenticated as is loaded and the form is bound to it, or
\* the request ends not-found
post_edit_load(r) ==
  LET id == get_owned_or_404(posts, r.slug, r.user) IN
  /\ r.op = "edit_auth"
  /\ IF id = 0
     THEN /\ pending' = Finish(pending, r)
          /\ resp' = Answer(r, "edit", "not_found", NoTitle, {})
     ELSE /\ pending' = Proceed(pending, r,
                               [r EXCEPT !.op = "edit", !.id = id,
                                         !.inst = construct_instance(posts[id],
                                                                     r.data)])
          /\ resp' = Suspended("edit", r.client)
  /\ UNCHANGED <<users, session, posts, nextId, gone>>

\* post_edit at form.save(): Post.save sets the slug and Model.save runs its
\* UPDATE; when the UPDATE finds no row the request goes on to the INSERT
post_edit_update(r) ==
  LET inst == r.inst
      row == [inst EXCEPT !.slug = save_slug(inst)]
      updated == Model_update(posts, r.id, row)
  IN
  /\ r.op = "edit"
  /\ IF ~updated.matched
     THEN /\ pending' = Proceed(pending, r, [r EXCEPT !.op = "edit_insert"])
          /\ posts' = posts
          /\ resp' = Suspended("edit", r.client)
     ELSE /\ pending' = Finish(pending, r)
          /\ posts' = updated.store
          /\ resp' = Answer(r, "edit",
                            IF updated.ok THEN "redirect_my_posts"
                            ELSE "integrity_error",
                            inst.title, {r.id})
  /\ UNCHANGED <<users, session, nextId, gone>>

\* post_edit at the INSERT of Model.save
post_edit_insert(r) ==
  LET inst == r.inst
      row == [inst EXCEPT !.slug = save_slug(inst)]
      inserted == Model_insert(posts, r.id, row)
  IN
  /\ r.op = "edit_insert"
  /\ pending' = Finish(pending, r)
  /\ posts' = inserted.store
  /\ resp' = Answer(r, "edit",
                    IF inserted.ok THEN "redirect_my_posts" ELSE "integrity_error",
                    inst.title, {r.id})
  /\ UNCHANGED <<users, session, nextId, gone>>

\* post_delete up to get_object_or_404: @login_required has read the session
post_delete_auth(c, slug) ==
  /\ CanSuspend(pending)
  /\ login_required(c)
  /\ pending' = Suspend(pending,
                   [NoPending EXCEPT !.op = "delete_auth", !.client = c,
                                     !.user = session[c], !.slug = slug])
  /\ resp' = Suspended("delete", c)
  /\ UNCHANGED <<users, session, posts, nextId, gone>>

\* post_delete at get_object_or_404: the post of the user the request was
\* authenticated as is loaded, or the request ends not-found
post_delete_load(r) ==
  LET id == get_owned_or_404(posts, r.slug, r.user) IN
  /\ r.op = "delete_auth"
  /\ IF id = 0
     THEN /\ pending' = Finish(pending, r)
          /\ resp' = Answer(r, "delete", "not_found", NoTitle, {})
     ELSE /\ pending' = Proceed(pending, r,
                               [r EXCEPT !.op = "delete", !.id = id,
                                         !.inst = posts[id]])
          /\ resp' = Suspended("delete", r.client)
  /\ UNCHANGED <<users, session, posts, nextId, gone>>

\* post_delete from post.delete() on
post_delete_exec(r) ==
  /\ r.op = "delete"
  /\ pending' = Finish(pending, r)
  /\ posts' = Model_delete(posts, r.id)
  /\ resp' = Answer(r, "delete", "redirect_my_posts", NoTitle, {r.id})
  /\ gone' = IF r.id \in DOMAIN posts
             THEN gone \cup {posts[r.id].slug}
             ELSE gone
  /\ UNCHANGED <<users, session, nextId>>

\* signup up to form.is_valid(): the form is bound and found valid
signup_load(c, form) ==
  /\ CanSuspend(pending)
  /\ signup_is_valid(form)
  /\ pending' = Suspend(pending,
                   [NoPending EXCEPT !.op = "signup", !.client = c,
                                     !.form = form])
  /\ resp' = Suspended("signup", c)
  /\ UNCHANGED <<users, session, posts, nextId, gone>>

\* signup at form.save(): the user is inserted, or the request ends with the
\* IntegrityError
signup_save(r) ==
  LET saved == User_save(users, r.form) IN
  /\ r.op = "signup"
  /\ users' = saved.table
  /\ IF saved.ok
     THEN /\ pending' = Proceed(pending, r, [r EXCEPT !.op = "signup_saved"])
          /\ resp' = Suspended("signup", r.client)
     ELSE /\ pending' = Finish(pending, r)
          /\ resp' = Answer(r, "signup", "integrity_error", NoTitle, {})
  /\ UNCHANGED <<session, posts, nextId, gone>>

\* signup from login(request, user) on
signup_login(r) ==
  LET username == clean_username(r.form) IN
  /\ r.op = "signup_saved"
  /\ pending' = Finish(pending, r)
  /\ session' = [session EXCEPT ![r.client] = username]
  /\ resp' = [Answer(r, "signup", "redirect_post_list", NoTitle, {})
                EXCEPT !.user = username]
  /\ UNCHANGED <<users, posts, nextId, gone>>

\* Inputs of the overlapping runs: the valid forms over two titles with
\* different slugs, the slugs of those titles, and the valid signup forms
ConcForms ==
  { [title |-> t, content |-> <<"x">>, status |-> "published"] :
      t \in { <<"a">>, <<"a", " ", "b">> } }

ConcSlugs == { slugify(f.title) : f \in ConcForms }

ConcSignupForms ==
  { [username |-> u, password1 |-> "ComplexPass123!",
     password2 |-> "ComplexPass123!"] : u \in Usernames }

\* The requests that write, in the steps between which other requests can
\* run, and a create and a delete that run from their first statement to
\* their last while other requests are suspended
NextConc ==
  \/ \E c \in Clients, form \in ConcSignupForms : signup_load(c, form)
  \/ \E r \in InFlight(pending) : signup_save(r)
  \/ \E r \in InFlight(pending) : signup_login(r)
  \/ \E c \in Clients, u \in Usernames : login(c, u, "ComplexPass123!")
  \/ \E c \in Clients, form \in ConcForms : post_create_auth(c, form)
  \/ \E r \in InFlight(pending) : post_create_save(r)
  \/ \E c \in Clients, slug \in ConcSlugs, form \in ConcForms :
       post_edit_auth(c, slug, form)
  \/ \E r \in InFlight(pending) : post_edit_load(r)
  \/ \E r \in InFlight(pending) : post_edit_update(r)
  \/ \E r \in InFlight(pending) : post_edit_insert(r)
  \/ \E c \in Clients, slug \in ConcSlugs : post_delete_auth(c, slug)
  \/ \E r \in InFlight(pending) : post_delete_load(r)
  \/ \E r \in InFlight(pending) : post_delete_exec(r)
  \/ \E c \in Clients, form \in ConcForms : post_create(c, "POST", form)
  \/ \E c \in Clients, slug \in ConcSlugs : post_delete(c, slug, "POST")

SpecConc == Init /\ [][NextConc]_vars

-----------------------------------------------------------------------------
(* Overlapping signups from two browsers, with the requests that show whether *)
(* a client has a session.                                                  *)

SignupClients == {"c1", "c2"}

InitSignup ==
  /\ users = [u \in {} |-> "ComplexPass123!"]
  /\ session = [c \in SignupClients |-> Anonymous]
  /\ posts = [k \in {} |-> NewPost]
  /\ nextId = 1
  /\ pending = NoneInFlight
  /\ resp = NoResponse
  /\ gone = {}

NextSignup ==
  \/ \E c \in SignupClients, method \in ReadMethods : signup(c, method, NoSignupForm)
  \/ \E c \in SignupClients,
          form \in (SignupForms \ ConcSignupForms) \cup SpellingForms :
       signup(c, "POST", form)
  \/ \E c \in SignupClients, form \in SpellingForms : signup_load(c, form)
  \/ \E r \in InFlight(pending) : signup_save(r)
  \/ \E r \in InFlight(pending) : signup_login(r)
  \/ \E c \in SignupClients, u \in Usernames, p \in Passwords : login(c, u, p)
  \/ \E c \in SignupClients : logout(c)
  \/ \E c \in SignupClients : my_posts(c)
  \/ \E c \in SignupClients, method \in ReadMethods : post_create(c, method, NoForm)

SpecSignup == InitSignup /\ [][NextSignup]_vars

-----------------------------------------------------------------------------
(* Properties *)

\* The post with the given slug exists in the store
SlugPresent(store, slug) == \E k \in DOMAIN store : store[k].slug = slug

AllSlugs == SlugInputs \cup {slugify(f.title) : f \in PostForms}

Succeeded(r, op) == r.op = op /\ r.status = "redirect_my_posts"

\* C1: the public list returns exactly the published posts, and the public
\* detail of a slug returns the post iff a published post has that slug and
\* not-found otherwise; no draft is listed or returned, whoever asks.
C1_PublicViewsOnlyPublished ==
  /\ resp.op = "list" =>
       /\ resp.status = "ok"
       /\ resp.body = {k \in DOMAIN posts : posts[k].status = "published"}
  /\ resp.op = "detail" =>
       /\ resp.status \in {"ok", "not_found"}
       /\ resp.status = "ok" <=>
            \E k \in DOMAIN posts :
              posts[k].slug = resp.slug /\ posts[k].status = "published"
       /\ resp.body =
            {k \in DOMAIN posts :
               posts[k].slug = resp.slug /\ posts[k].status = "published"}
  /\ resp.op \in {"list", "detail"} =>
       \A k \in resp.body : posts[k].status # "draft"

\* The author asks for the public detail of their own draft and gets not-found
C1_Witness ==
  /\ resp.op = "detail"
  /\ resp.status = "not_found"
  /\ \E k \in DOMAIN posts :
       /\ posts[k].slug = resp.slug
       /\ posts[k].status = "draft"
       /\ posts[k].author = resp.user

\* C2: an edit or delete request, GET or POST, by an authenticated user for
\* the slug of a post of another author returns not-found and leaves the post
\* as it is; a post changes or disappears only in an edit or delete by its
\* author.
C2_OnlyAuthorChanges ==
  [][\A k \in DOMAIN posts :
       /\ ( /\ resp'.op \in {"edit", "delete"}
            /\ resp'.user # Anonymous
            /\ resp'.slug = posts[k].slug
            /\ resp'.user # posts[k].author )
          => /\ resp'.status = "not_found"
             /\ posts' = posts
       /\ (k \notin DOMAIN posts' \/ posts'[k] # posts[k])
          => /\ resp'.op \in {"edit", "delete"}
             /\ resp'.method = "POST"
             /\ resp'.user = posts[k].author]_vars

\* A logged-in user has POSTed an edit or delete for another author's post
C2_Witness ==
  /\ resp.op \in {"edit", "delete"}
  /\ resp.method = "POST"
  /\ resp.user # Anonymous
  /\ resp.status = "not_found"
  /\ \E k \in DOMAIN posts :
       posts[k].slug = resp.slug /\ posts[k].author # resp.user

\* C3: a request to create, edit, delete or my_posts from a client without a
\* session is answered with a redirect to login and changes no post; a failed
\* login leaves the session as it was.
C3_AnonymousRedirected ==
  [][/\ ( /\ resp'.op \in {"create", "edit", "delete", "my_posts"}
          /\ session[resp'.client] = Anonymous )
        => /\ resp'.status = "redirect_login"
           /\ posts' = posts
           /\ nextId' = nextId
     /\ (resp'.op = "login" /\ resp'.status # "redirect_post_list")
        => /\ session' = session
           /\ resp'.status = "form_errors"]_vars

\* A POST without a session to edit an existing post's slug was redirected
C3_Witness ==
  /\ resp.op = "edit"
  /\ resp.method = "POST"
  /\ resp.status = "redirect_login"
  /\ SlugPresent(posts, resp.slug)
  /\ session[resp.client] = Anonymous

\* C4: no two stored posts share a slug; a create or an edit whose title
\* derives to the slug of another stored post ends in a uniqueness violation,
\* and a uniqueness violation leaves the store as it was.
C4_SlugUnique ==
  [][/\ \A j, k \in DOMAIN posts' : j # k => posts'[j].slug # posts'[k].slug
     /\ resp'.status = "integrity_error" => posts' = posts /\ nextId' = nextId
     /\ ( /\ resp'.op \in {"create", "edit"}
          /\ resp'.status \in {"integrity_error", "redirect_my_posts"}
          /\ \E k \in DOMAIN posts \ resp'.body :
               posts[k].slug = slugify(resp'.title) )
        => resp'.status = "integrity_error"]_vars

\* A create was rejected: its title differs from the stored post's title and
\* derives to the same slug
C4_Witness ==
  /\ resp.op = "create"
  /\ resp.status = "integrity_error"
  /\ \E k \in DOMAIN posts :
       /\ posts[k].title # resp.title
       /\ posts[k].slug = slugify(resp.title)

\* C5: every stored post's slug is the derivation of its title; after a
\* successful create or edit the saved post carries the submitted title and
\* the slug derived from it.
C5_SlugDerivedFromTitle ==
  /\ \A k \in DOMAIN posts : posts[k].slug = slugify(posts[k].title)
  /\ (Succeeded(resp, "create") \/ Succeeded(resp, "edit")) =>
       \A k \in resp.body :
         /\ k \in DOMAIN posts
         /\ posts[k].title = resp.title
         /\ posts[k].slug = slugify(resp.title)

\* An edit has moved a post to a slug other than the one it was requested by
C5_Witness ==
  /\ Succeeded(resp, "edit")
  /\ ~SlugPresent(posts, resp.slug)

\* C8: a signup POST whose form validated ends with the account stored, the
\* client's session the new user's and the redirect; one whose form did not
\* validate, or whose passwords differ, leaves users and sessions unchanged; a
\* gated request that follows a successful signup is not redirected to login.
C8_SignupIffValid ==
  [][/\ ( /\ resp'.op = "signup" /\ resp'.method = "POST"
          /\ resp'.status # "in_progress" )
        => LET f == resp'.submitted
               username == clean_username(f)
               validated == resp'.errors = {}
           IN /\ validated => /\ resp'.status = "redirect_post_list"
                               /\ username \in DOMAIN users'
                               /\ users'[username] = f.password1
                               /\ session'[resp'.client] = username
              /\ ~validated => /\ resp'.status = "form_errors"
                                /\ users' = users
                                /\ session' = session
              /\ f.password1 # f.password2 => ~validated
              /\ posts' = posts
     /\ ( /\ resp.op = "signup" /\ resp.status = "redirect_post_list"
          /\ resp'.op \in {"create", "edit", "delete", "my_posts"}
          /\ resp'.client = resp.client )
        => /\ resp'.status # "redirect_login"
           /\ resp'.user = resp.user]_vars

\* C9: a create stores the requesting user as the author of a new id, nothing
\* else adds a post, and no request changes the author of a stored post.
C9_AuthorFixedAtCreation ==
  [][/\ \A k \in DOMAIN posts \cap DOMAIN posts' :
          posts'[k].author = posts[k].author
     /\ \A k \in DOMAIN posts' \ DOMAIN posts :
          /\ Succeeded(resp', "create")
          /\ resp'.body = {k}
          /\ k = nextId
          /\ resp'.user = session[resp'.client]
          /\ resp'.user # Anonymous
          /\ posts'[k].author = resp'.user]_vars

\* A post created by one user has been edited and is still that user's
C9_Witness ==
  /\ Succeeded(resp, "edit")
  /\ resp.title = <<"A">>
  /\ \E k \in resp.body :
       /\ k \in DOMAIN posts
       /\ posts[k].author = resp.user
       /\ posts[k].title = <<"A">>

\* C10: once a post has been deleted, no request that completes later stores
\* a row with its id again.
C10_DeletionTerminal ==
  [][\A k \in 1..(nextId - 1) :
       k \notin DOMAIN posts => k \notin DOMAIN posts']_vars

====
